---- MODULE Spec2Model ----
(***************************************************************************)
(* Model of the ADK output parser (OutputParser, server/outputParser.ts;   *)
(* its text is carried in src/GCP_SETUP.md, lines 610-807) and of the      *)
(* callers that feed it.                                                    *)
(*                                                                         *)
(* Text.  A string is a sequence of lexemes.  A lexeme stands for a fixed  *)
(* run of characters: a punctuation character, one whitespace character,   *)
(* or a word.  No word of the alphabet contains a brace, a bracket, a      *)
(* quote, a colon, a comma or whitespace, and no two words are ever        *)
(* adjacent in a line without a separating lexeme, so every regular        *)
(* expression and every string method of the source has an exact           *)
(* counterpart on lexeme sequences.                                        *)
(*                                                                         *)
(* The timestamp field (new Date()) of a country response is left out.     *)
(***************************************************************************)
EXTENDS Integers, Sequences, FiniteSets, TLC

SP == " "
NL == "\n"
QUOTE == "\""

(***************************************************************************)
(* String.prototype.toLowerCase on a lexeme.                               *)
(***************************************************************************)
ToLowerCase(x) ==
  CASE x = "USA" -> "usa"
    [] x = "US" -> "us"
    [] x = "China" -> "china"
    [] x = "CHINA" -> "china"
    [] x = "PRC" -> "prc"
    [] x = "Russia" -> "russia"
    [] x = "EU" -> "eu"
    [] x = "Mars" -> "mars"
    [] x = "Session" -> "session"
    [] x = "Iteration" -> "iteration"
    [] x = "Running" -> "running"
    [] x = "Said:" -> "said:"
    [] x = "User" -> "user"
    [] OTHER -> x

IsSpace(x) == x = SP \/ x = NL

(***************************************************************************)
(* String.prototype.trim                                                   *)
(***************************************************************************)
RECURSIVE TrimLeft(_)
TrimLeft(s) ==
  IF s = <<>> THEN <<>>
  ELSE IF IsSpace(Head(s)) THEN TrimLeft(Tail(s)) ELSE s

RECURSIVE TrimRight(_)
TrimRight(s) ==
  IF s = <<>> THEN <<>>
  ELSE IF IsSpace(s[Len(s)]) THEN TrimRight(SubSeq(s, 1, Len(s) - 1)) ELSE s

Trim(s) == TrimRight(TrimLeft(s))

(***************************************************************************)
(* (s.match(/x/g) || []).length for a one-character pattern x              *)
(***************************************************************************)
CountOf(s, x) == Cardinality({i \in 1..Len(s) : s[i] = x})

(***************************************************************************)
(* s.startsWith(p) and a case-insensitive /^p/i                            *)
(***************************************************************************)
StartsWith(s, p) == Len(s) >= Len(p) /\ SubSeq(s, 1, Len(p)) = p

StartsWithCI(s, p) ==
  /\ Len(s) >= Len(p)
  /\ \A i \in 1..Len(p) : ToLowerCase(s[i]) = p[i]

(***************************************************************************)
(* JavaScript values as JSON.parse produces them.  Every value carries the *)
(* same four fields: k is the type tag, n the number, s the string text,   *)
(* m the members of an object (key, value) or the elements of an array.    *)
(***************************************************************************)
JsNum(n) == [k |-> "num", n |-> n, s |-> <<>>, m |-> <<>>]
JsStr(s) == [k |-> "str", n |-> 0, s |-> s, m |-> <<>>]
JsObj(m) == [k |-> "obj", n |-> 0, s |-> <<>>, m |-> m]
JsArr(m) == [k |-> "arr", n |-> 0, s |-> <<>>, m |-> m]
JsNull == [k |-> "null", n |-> 0, s |-> <<>>, m |-> <<>>]
JsUndefined == [k |-> "undefined", n |-> 0, s |-> <<>>, m |-> <<>>]

(***************************************************************************)
(* ToBoolean, as applied by && and if                                      *)
(***************************************************************************)
Truthy(v) ==
  CASE v.k = "num" -> v.n # 0
    [] v.k = "str" -> v.s # <<>>
    [] v.k = "obj" -> TRUE
    [] v.k = "arr" -> TRUE
    [] OTHER -> FALSE

(***************************************************************************)
(* Property read obj.key: the last member of that name, else undefined.    *)
(***************************************************************************)
GetProp(v, key) ==
  LET hits == {i \in 1..Len(v.m) : v.m[i].key = key}
  IN IF v.k # "obj" \/ hits = {} THEN JsUndefined
     ELSE v.m[CHOOSE i \in hits : \A j \in hits : j <= i].val

(***************************************************************************)
(* JSON.parse: the lexical level.  A token is [t, v]: t is "p" for a       *)
(* punctuation character, "s" for a string literal, "n" for a number,      *)
(* "null" for null; v is the text.  Whitespace between tokens is skipped,  *)
(* a raw newline inside a string literal and any other word are syntax     *)
(* errors.                                                                 *)
(***************************************************************************)
JsonPunct == {"{", "}", "[", "]", ":", ","}
NumberLexemes == {"0", "1", "2", "3"}
NumberValue(x) == CASE x = "0" -> 0 [] x = "1" -> 1 [] x = "2" -> 2 [] OTHER -> 3

\* the k-th smallest element of a set of positions
NthOf(positions, k) ==
  CHOOSE p \in positions : Cardinality({q \in positions : q < p}) = k - 1

JsonQuotes(s) == {i \in 1..Len(s) : s[i] = QUOTE}

\* position i lies between an opening quote and its closing quote
InJsonString(s, i) ==
  s[i] # QUOTE /\ Cardinality({q \in JsonQuotes(s) : q < i}) % 2 = 1

\* the positions where a token starts: opening quotes, and the lexemes
\* outside string literals other than whitespace
JsonTokenStarts(s) ==
  {i \in 1..Len(s) :
     IF s[i] = QUOTE THEN Cardinality({q \in JsonQuotes(s) : q < i}) % 2 = 0
     ELSE ~InJsonString(s, i) /\ ~IsSpace(s[i])}

JsonToken(s, p) ==
  IF s[p] = QUOTE
  THEN [t |-> "s", v |-> SubSeq(s, p + 1, NthOf({c \in JsonQuotes(s) : c > p}, 1) - 1)]
  ELSE IF s[p] \in JsonPunct THEN [t |-> "p", v |-> <<s[p]>>]
  ELSE IF s[p] \in NumberLexemes THEN [t |-> "n", v |-> <<s[p]>>]
  ELSE [t |-> "null", v |-> <<s[p]>>]

JsonLex(s) ==
  LET starts == JsonTokenStarts(s)
  IN IF /\ Cardinality(JsonQuotes(s)) % 2 = 0
        /\ \A i \in 1..Len(s) : s[i] = NL => ~InJsonString(s, i)
        /\ \A p \in starts : s[p] \in JsonPunct \cup NumberLexemes \cup {"null", QUOTE}
     THEN [ok |-> TRUE, toks |-> [k \in 1..Cardinality(starts) |-> JsonToken(s, NthOf(starts, k))]]
     ELSE [ok |-> FALSE, toks |-> <<>>]

IsPunct(t, i, x) == i <= Len(t) /\ t[i].t = "p" /\ t[i].v = <<x>>

JsonFail == [ok |-> FALSE, val |-> JsUndefined, next |-> 0]

(***************************************************************************)
(* JSON.parse: the grammar (value, object members, array elements).        *)
(***************************************************************************)
RECURSIVE JsonValue(_, _)
RECURSIVE JsonMembers(_, _, _)
RECURSIVE JsonElements(_, _, _)

JsonValue(t, i) ==
  IF i > Len(t) THEN JsonFail
  ELSE IF t[i].t = "s" THEN [ok |-> TRUE, val |-> JsStr(t[i].v), next |-> i + 1]
  ELSE IF t[i].t = "n" THEN [ok |-> TRUE, val |-> JsNum(NumberValue(t[i].v[1])), next |-> i + 1]
  ELSE IF t[i].t = "null" THEN [ok |-> TRUE, val |-> JsNull, next |-> i + 1]
  ELSE IF IsPunct(t, i, "{") THEN
    IF IsPunct(t, i + 1, "}") THEN [ok |-> TRUE, val |-> JsObj(<<>>), next |-> i + 2]
    ELSE JsonMembers(t, i + 1, <<>>)
  ELSE IF IsPunct(t, i, "[") THEN
    IF IsPunct(t, i + 1, "]") THEN [ok |-> TRUE, val |-> JsArr(<<>>), next |-> i + 2]
    ELSE JsonElements(t, i + 1, <<>>)
  ELSE JsonFail

JsonMembers(t, i, acc) ==
  IF ~(i <= Len(t) /\ t[i].t = "s" /\ IsPunct(t, i + 1, ":")) THEN JsonFail
  ELSE LET r == JsonValue(t, i + 2)
           acc2 == Append(acc, [key |-> t[i].v, val |-> r.val])
       IN IF ~r.ok THEN JsonFail
          ELSE IF IsPunct(t, r.next, ",") THEN JsonMembers(t, r.next + 1, acc2)
          ELSE IF IsPunct(t, r.next, "}") THEN [ok |-> TRUE, val |-> JsObj(acc2), next |-> r.next + 1]
          ELSE JsonFail

JsonElements(t, i, acc) ==
  LET r == JsonValue(t, i)
      acc2 == Append(acc, [key |-> <<>>, val |-> r.val])
  IN IF ~r.ok THEN JsonFail
     ELSE IF IsPunct(t, r.next, ",") THEN JsonElements(t, r.next + 1, acc2)
     ELSE IF IsPunct(t, r.next, "]") THEN [ok |-> TRUE, val |-> JsArr(acc2), next |-> r.next + 1]
     ELSE JsonFail

(***************************************************************************)
(* JSON.parse(text): ok is FALSE where the source throws SyntaxError.      *)
(***************************************************************************)
JSONparse(s) ==
  LET lx == JsonLex(s)
      r == JsonValue(lx.toks, 1)
  IN IF lx.ok /\ r.ok /\ r.next = Len(lx.toks) + 1
     THEN [ok |-> TRUE, val |-> r.val]
     ELSE [ok |-> FALSE, val |-> JsUndefined]

(***************************************************************************)
(* OutputParser                                                            *)
(***************************************************************************)
VARIABLES
  jsonBuffer,        \* private jsonBuffer: string
  inJsonBlock,       \* private inJsonBlock: boolean
  currentResponse,   \* private currentResponse: Partial<CountryResponse> | null
  currentIteration,  \* private currentIteration: number
  ret,               \* what the last call returned
  op,                \* the last call: its name and its argument
  prev,              \* the parser's fields when the last call started
  calls,             \* number of calls made so far
  output,            \* parseGcpOutput: lines of the text being parsed
  feed,              \* parseGcpOutput: lines[i..] still to be read
  pc,                \* parseGcpOutput: "idle", "loop" or "done"
  countryResponses,  \* parseGcpOutput: const countryResponses: any[]
  analystResponses,  \* parseGcpOutput: const analystResponses: any[]
  records,           \* what parseLine and finalize returned during the run, in order
  adkParser,         \* AdkManager.parser: the fields of its OutputParser
  isRunning,         \* AdkManager.isRunning
  process,           \* AdkManager.process: null or the child process
  stdout,            \* per child spawned: chunks it has still to write to stdout
  delivered,         \* per outputCallback installed: the calls made to it, in order
  completed,         \* number of completeCallback calls
  alive,             \* the children spawned and not yet closed
  awaiting,          \* startSimulation calls between their guard and their spawn
  timers,            \* the children whose 5-minute timer is armed and has not fired
  killed,            \* the children sent SIGTERM: which child, by "stop" or by the timer of
                     \* which child, and whether that child had closed by then
  cachedToken,       \* GcpReasoningEngine.cachedToken: null or the token text
  tokenExpiry,       \* GcpReasoningEngine.tokenExpiry: null or a time
  now,               \* Date.now(), in minutes
  fetches,           \* number of runs of gcloud auth print-access-token so far
  cacheHits,         \* number of getToken calls answered from the cache so far
  attempts,          \* number of calls of query made for the request at hand
  queryPc,           \* query: "idle", "createSession", "stream", "cleanup" or "settled"
  token,             \* query: const token
  sessionId,         \* query: let sessionId
  created,           \* the sessions created for the request at hand
  deleted,           \* the sessions passed to deleteSession for the request at hand
  settled,           \* how the promise of query settled: a result or an error
  apiPc,             \* POST /api/simulate: "idle", "query", "parse" or "responded"
  event,             \* POST /api/simulate: const { event } = req.body
  requests,          \* number of requests received
  responses          \* the responses sent for the request at hand

parserVars == <<jsonBuffer, inJsonBlock, currentResponse, currentIteration>>
runVars == <<output, feed, pc, countryResponses, analystResponses, records>>
adkVars == <<adkParser, isRunning, process, stdout, delivered, completed, alive, awaiting,
             timers, killed>>
tokenVars == <<cachedToken, tokenExpiry, now, fetches, cacheHits>>
queryVars == <<attempts, queryPc, token, sessionId, created, deleted, settled>>
apiVars == <<apiPc, event, requests, responses>>
vars == <<jsonBuffer, inJsonBlock, currentResponse, currentIteration,
          ret, op, prev, calls,
          output, feed, pc, countryResponses, analystResponses, records,
          adkParser, isRunning, process, stdout, delivered, completed, alive, awaiting,
          timers, killed,
          cachedToken, tokenExpiry, now, fetches, cacheHits,
          attempts, queryPc, token, sessionId, created, deleted, settled,
          apiPc, event, requests, responses>>

Null == [kind |-> "null"]

CountryResponse(country, message, iteration) ==
  [kind |-> "country", country |-> country, message |-> message, iteration |-> iteration]

\* parsed as AnalystResponse: the parsed object itself
AnalystResponse(parsed) == [kind |-> "analyst", value |-> parsed]

Self == [jsonBuffer |-> jsonBuffer, inJsonBlock |-> inJsonBlock,
         currentResponse |-> currentResponse, currentIteration |-> currentIteration]

\* field initialisers of the class
NewOutputParser ==
  [jsonBuffer |-> <<>>, inJsonBlock |-> FALSE,
   currentResponse |-> Null, currentIteration |-> JsNum(1)]

\* AdkManager: field initialisers and constructor
NewAdkManager ==
  /\ adkParser = NewOutputParser
  /\ isRunning = FALSE
  /\ process = Null
  /\ stdout = <<>>
  /\ delivered = <<>>
  /\ completed = 0
  /\ alive = {}
  /\ awaiting = 0
  /\ timers = {}
  /\ killed = {}

\* field initialisers of GcpReasoningEngine; no query under way
NewGcpReasoningEngine ==
  /\ cachedToken = JsNull
  /\ tokenExpiry = JsNull
  /\ now = 0
  /\ fetches = 0
  /\ cacheHits = 0
  /\ attempts = 0
  /\ queryPc = "idle"
  /\ token = JsNull
  /\ sessionId = JsNull
  /\ created = {}
  /\ deleted = {}
  /\ settled = Null

\* the server after app.listen: no request yet
NewServer ==
  /\ apiPc = "idle"
  /\ event = JsUndefined
  /\ requests = 0
  /\ responses = <<>>

Result(st, r) == [st |-> st, ret |-> r]

\* a call that ends in an exception instead of a return value
Throw(error) == [kind |-> "throw", error |-> error]

(***************************************************************************)
(* \s* from position i: the first position that holds no whitespace        *)
(***************************************************************************)
RECURSIVE SkipSpaces(_, _)
SkipSpaces(s, i) ==
  IF i <= Len(s) /\ IsSpace(s[i]) THEN SkipSpaces(s, i + 1) ELSE i

CountryNames == {"usa", "china", "russia", "eu"}

\* \[(USA|China|Russia|EU)\] with flag i, tried at position i
MarkerAt(s, i) ==
  /\ i + 2 <= Len(s)
  /\ s[i] = "["
  /\ ToLowerCase(s[i + 1]) \in CountryNames
  /\ s[i + 2] = "]"

NoMatch == [found |-> FALSE, index |-> 0, group1 |-> "", group2 |-> <<>>]

(***************************************************************************)
(* line.match(COUNTRY_PATTERN): the leftmost match, anywhere in the line   *)
(***************************************************************************)
COUNTRY_PATTERN(s) ==
  LET hits == {i \in 1..Len(s) : MarkerAt(s, i)}
  IN IF hits = {} THEN NoMatch
     ELSE LET i == CHOOSE h \in hits : \A g \in hits : h <= g
          IN [found |-> TRUE, index |-> i, group1 |-> s[i + 1], group2 |-> <<>>]

\* \[(...)\]\s*said:\s*(.*) with flag i, tried at position i
SaidAt(s, i) ==
  /\ MarkerAt(s, i)
  /\ LET j == SkipSpaces(s, i + 3)
     IN j <= Len(s) /\ ToLowerCase(s[j]) = "said:"

(***************************************************************************)
(* line.match(SAID_PATTERN): the leftmost match; group 2 is the rest of    *)
(* the line after "said:" and the whitespace that follows it               *)
(***************************************************************************)
SAID_PATTERN(s) ==
  LET hits == {i \in 1..Len(s) : SaidAt(s, i)}
  IN IF hits = {} THEN NoMatch
     ELSE LET i == CHOOSE h \in hits : \A g \in hits : h <= g
              j == SkipSpaces(s, i + 3)
              k == SkipSpaces(s, j + 1)
          IN [found |-> TRUE, index |-> i, group1 |-> s[i + 1],
              group2 |-> SubSeq(s, k, Len(s))]

\* line.replace(COUNTRY_PATTERN, ''): the first match removed
RemoveCountryPattern(s) ==
  LET m == COUNTRY_PATTERN(s)
  IN IF ~m.found THEN s
     ELSE SubSeq(s, 1, m.index - 1) \o SubSeq(s, m.index + 3, Len(s))

(***************************************************************************)
(* normalizeCountryName                                                    *)
(***************************************************************************)
normalizeCountryName(name) ==
  LET normalized == ToLowerCase(name)
  IN IF normalized = "usa" \/ normalized = "us" \/ normalized = "united states" THEN "USA"
     ELSE IF normalized = "china" \/ normalized = "prc" THEN "China"
     ELSE IF normalized = "russia" \/ normalized = "russian federation" THEN "Russia"
     ELSE IF normalized = "eu" \/ normalized = "european union" THEN "EU"
     ELSE name

(***************************************************************************)
(* isSystemMessage: six patterns, each anchored at the start of the line   *)
(* it is given, each with flag i                                           *)
(***************************************************************************)
systemPatterns ==
  { <<"running", SP, "agent">>,
    <<"type", SP, "exit", SP, "to", SP, "exit">>,
    <<"[", "user", "]", ":">>,
    <<"[", "system", "]", ":">>,
    <<"session">>,
    <<"iteration">> }

isSystemMessage(line) == \E pattern \in systemPatterns : StartsWithCI(line, pattern)

(***************************************************************************)
(* tryParseAnalystJson                                                     *)
(***************************************************************************)
\* variant: the comparison of the two counts is left out
bracesMatch_openOnly(buffer) == CountOf(buffer, "{") > 0

\* openBraces > 0 && openBraces === closeBraces
bracesMatch(buffer) ==
  LET openBraces == CountOf(buffer, "{")
      closeBraces == CountOf(buffer, "}")
  IN openBraces > 0 /\ openBraces = closeBraces

\* parsed.iteration !== undefined && parsed.analysis && parsed.norm_updates && parsed.reasoning
isAnalystResponse(parsed) ==
  /\ GetProp(parsed, <<"iteration">>) # JsUndefined
  /\ Truthy(GetProp(parsed, <<"analysis">>))
  /\ Truthy(GetProp(parsed, <<"norm_updates">>))
  /\ Truthy(GetProp(parsed, <<"reasoning">>))

\* variant: the buffer is cleared but the block stays open
closeJsonBlock_bufferOnly(st) == [st EXCEPT !.jsonBuffer = <<>>]

\* this.inJsonBlock = false; this.jsonBuffer = ''
closeJsonBlock(st) == [st EXCEPT !.inJsonBlock = FALSE, !.jsonBuffer = <<>>]

\* variant: JSON.parse is called outside any try block
catchParseError_uncaught(st) == Result(st, Throw("SyntaxError"))

\* catch (e) { console.error(...); this.inJsonBlock = false; this.jsonBuffer = '' }
catchParseError(st) == Result(closeJsonBlock(st), Null)

tryParseAnalystJson(st, line) ==
  IF StartsWith(line, <<"{">>) /\ ~st.inJsonBlock
  THEN Result([st EXCEPT !.inJsonBlock = TRUE, !.jsonBuffer = line], Null)
  ELSE IF st.inJsonBlock
  THEN LET buffer == st.jsonBuffer \o <<NL>> \o line
           st1 == [st EXCEPT !.jsonBuffer = buffer]
       IN IF bracesMatch(buffer)
          THEN LET parsed == JSONparse(buffer)
               IN IF parsed.ok
                  THEN IF isAnalystResponse(parsed.val)
                       THEN Result(closeJsonBlock(st1), AnalystResponse(parsed.val))
                       ELSE Result(st1, Null)
                  ELSE catchParseError(st1)
          ELSE Result(st1, Null)
  ELSE Result(st, Null)

(***************************************************************************)
(* tryParseCountryResponse                                                 *)
(***************************************************************************)
\* variant: the response in progress is overwritten without being returned
completedResponse_dropped(st) == Null

\* variant: the response is stamped with the iteration current when it is returned
completedResponse_restamped(st) ==
  IF st.currentResponse = Null THEN Null
  ELSE [st.currentResponse EXCEPT !.iteration = st.currentIteration]

\* this.currentResponse ? { ...this.currentResponse } : null
completedResponse(st) == st.currentResponse

\* saidMatch ? saidMatch[2].trim() : line.replace(this.COUNTRY_PATTERN, '').trim()
markerMessage(line) ==
  LET saidMatch == SAID_PATTERN(line)
  IN IF saidMatch.found THEN Trim(saidMatch.group2)
     ELSE Trim(RemoveCountryPattern(line))

\* variant: the continuation is glued on without the newline
appendLine_noSeparator(response, line) ==
  [response EXCEPT !.message = @ \o Trim(line)]

\* this.currentResponse.message += '\n' + line.trim()
appendLine(response, line) ==
  [response EXCEPT !.message = @ \o <<NL>> \o Trim(line)]

\* variant: text met while no response is in progress starts one
tryParseCountryResponse_keepsStrayText(st, line) ==
  LET countryMatch == COUNTRY_PATTERN(line)
  IN IF countryMatch.found
     THEN Result([st EXCEPT !.currentResponse =
                     CountryResponse(normalizeCountryName(countryMatch.group1),
                                     markerMessage(line), st.currentIteration)],
                 completedResponse(st))
     ELSE IF Trim(line) # <<>> /\ ~st.inJsonBlock /\ ~isSystemMessage(line)
     THEN IF st.currentResponse # Null
          THEN Result([st EXCEPT !.currentResponse = appendLine(@, line)], Null)
          ELSE Result([st EXCEPT !.currentResponse =
                          CountryResponse("", Trim(line), st.currentIteration)], Null)
     ELSE Result(st, Null)

tryParseCountryResponse(st, line) ==
  LET countryMatch == COUNTRY_PATTERN(line)
  IN IF countryMatch.found
     THEN Result([st EXCEPT !.currentResponse =
                     CountryResponse(normalizeCountryName(countryMatch.group1),
                                     markerMessage(line), st.currentIteration)],
                 completedResponse(st))
     ELSE IF st.currentResponse # Null /\ Trim(line) # <<>> /\ ~st.inJsonBlock
     THEN IF ~isSystemMessage(line)
          THEN Result([st EXCEPT !.currentResponse = appendLine(@, line)], Null)
          ELSE Result(st, Null)
     ELSE Result(st, Null)

(***************************************************************************)
(* parseLine                                                               *)
(***************************************************************************)
\* variant: the tracked iteration only ever grows
parseLine_keepsLargest(st, line) ==
  LET trimmedLine == Trim(line)
  IN IF trimmedLine = <<>> THEN Result(st, Null)
     ELSE LET a == tryParseAnalystJson(st, trimmedLine)
              iteration == IF a.ret.kind = "analyst"
                           THEN GetProp(a.ret.value, <<"iteration">>)
                           ELSE JsUndefined
          IN IF a.ret.kind = "throw" THEN a
             ELSE IF a.ret # Null
             THEN Result([a.st EXCEPT !.currentIteration =
                             IF iteration.n > @.n THEN iteration ELSE @],
                         a.ret)
             ELSE tryParseCountryResponse(a.st, line)

\* an exception of tryParseAnalystJson would leave parseLine at once
parseLine(st, line) ==
  LET trimmedLine == Trim(line)
  IN IF trimmedLine = <<>> THEN Result(st, Null)
     ELSE LET a == tryParseAnalystJson(st, trimmedLine)
          IN IF a.ret.kind = "throw" THEN a
             ELSE IF a.ret # Null
             THEN Result([a.st EXCEPT !.currentIteration = GetProp(a.ret.value, <<"iteration">>)],
                         a.ret)
             ELSE tryParseCountryResponse(a.st, line)

(***************************************************************************)
(* finalize and reset                                                      *)
(***************************************************************************)
\* variant: an open JSON block is force-parsed and returned at the end of input
finalize_forcesBlock(st) ==
  IF st.inJsonBlock
  THEN Result(closeJsonBlock(st), AnalystResponse(JSONparse(st.jsonBuffer \o <<"}">>).val))
  ELSE IF st.currentResponse # Null
  THEN Result([st EXCEPT !.currentResponse = Null], st.currentResponse)
  ELSE Result(st, Null)

\* variant: the pending response is cleared without being returned
finalize_dropsPending(st) == Result([st EXCEPT !.currentResponse = Null], Null)

\* variant: the pending response is returned but not cleared
finalize_keepsPending(st) == Result(st, st.currentResponse)

finalize(st) ==
  IF st.currentResponse # Null
  THEN Result([st EXCEPT !.currentResponse = Null], st.currentResponse)
  ELSE Result(st, Null)

reset(st) ==
  [st EXCEPT !.jsonBuffer = <<>>, !.inJsonBlock = FALSE,
             !.currentResponse = Null, !.currentIteration = JsNum(1)]

(***************************************************************************)
(* Input lines.                                                            *)
(***************************************************************************)
LUsaSaid == <<"[", "USA", "]", SP, "said:", SP, "hi">>
LChinaSaid == <<"[", "China", "]", SP, "said:", SP, "ok">>
LUsaLower == <<"[", "usa", "]", SP, "hi">>
LUsAlias == <<"[", "US", "]", SP, "said:", SP, "hi">>
LMars == <<"[", "Mars", "]", SP, "said:", SP, "hi">>
LOpen == <<"{">>
LClose == <<"}">>
LHead == <<"{", QUOTE, "iteration", QUOTE, ":", SP, "2", ",", SP,
           QUOTE, "analysis", QUOTE, ":", SP, QUOTE, "ok", QUOTE, ",">>
LTail == <<QUOTE, "norm_updates", QUOTE, ":", SP, "{", "}", ",", SP,
           QUOTE, "reasoning", QUOTE, ":", SP, "{", "}", "}">>
LQuoted == <<QUOTE, "note", QUOTE, ":", SP, QUOTE, "[", "EU", "]", SP, "ok", QUOTE, ",">>
LOpenQuoted == <<"{">> \o LQuoted
LText == <<"ok">>
LNoise == <<"Session", SP, "1">>
LNoiseMarker == <<"[", "user", "]", ":", SP, "[", "Russia", "]", SP, "hi">>
LIndentNoise == <<SP, "Session">>
LBlank == <<SP>>

Lines ==
  { LUsaSaid, LChinaSaid, LUsaLower, LUsAlias, LOpen, LClose, LHead, LTail,
    LQuoted, LText, LNoise, LNoiseMarker, LIndentNoise, LBlank, LMars }

MaxCalls == 5

(***************************************************************************)
(* The parser under any caller: parseLine, finalize and reset in any order *)
(***************************************************************************)
NoOp == [name |-> "new", line |-> <<>>, after |-> "new"]

Call(name, line) == [name |-> name, line |-> line, after |-> op.name]

Init ==
  /\ jsonBuffer = NewOutputParser.jsonBuffer
  /\ inJsonBlock = NewOutputParser.inJsonBlock
  /\ currentResponse = NewOutputParser.currentResponse
  /\ currentIteration = NewOutputParser.currentIteration
  /\ ret = Null
  /\ op = NoOp
  /\ prev = NewOutputParser
  /\ calls = 0
  /\ output = <<>>
  /\ feed = <<>>
  /\ pc = "idle"
  /\ countryResponses = <<>>
  /\ analystResponses = <<>>
  /\ records = <<>>
  /\ NewAdkManager
  /\ NewGcpReasoningEngine
  /\ NewServer

Becomes(st) ==
  /\ jsonBuffer' = st.jsonBuffer
  /\ inJsonBlock' = st.inJsonBlock
  /\ currentResponse' = st.currentResponse
  /\ currentIteration' = st.currentIteration

ParseLine(line) ==
  /\ calls < MaxCalls
  /\ LET r == parseLine(Self, line)
     IN Becomes(r.st) /\ ret' = r.ret
  /\ op' = Call("parseLine", line)
  /\ prev' = Self
  /\ calls' = calls + 1
  /\ UNCHANGED <<runVars, adkVars, tokenVars, queryVars, apiVars>>

Finalize ==
  /\ calls < MaxCalls
  /\ LET r == finalize(Self)
     IN Becomes(r.st) /\ ret' = r.ret
  /\ op' = Call("finalize", <<>>)
  /\ prev' = Self
  /\ calls' = calls + 1
  /\ UNCHANGED <<runVars, adkVars, tokenVars, queryVars, apiVars>>

Reset ==
  /\ calls < MaxCalls
  /\ Becomes(reset(Self))
  /\ ret' = Null
  /\ op' = Call("reset", <<>>)
  /\ prev' = Self
  /\ calls' = calls + 1
  /\ UNCHANGED <<runVars, adkVars, tokenVars, queryVars, apiVars>>

Next ==
  \/ \E line \in Lines : ParseLine(line)
  \/ Finalize
  \/ Reset

Spec == Init /\ [][Next]_vars

(***************************************************************************)
(* parseGcpOutput (server/index.ts), for a result that is a string: one    *)
(* step per iteration of the loop over output.split('\n'), then one step   *)
(* for everything after the loop.                                          *)
(***************************************************************************)
LRussia == <<"[", "Russia", "]", SP, "hi">>
LEuSaid == <<"[", "EU", "]", SP, "said:", SP, "ok">>
LIteration == <<QUOTE, "iteration", QUOTE, ":", SP, "1", ",">>
LAnalysis == <<QUOTE, "analysis", QUOTE, ":", SP, QUOTE, "test", QUOTE, ",">>
LNormUpdates == <<QUOTE, "norm_updates", QUOTE, ":", SP, "{", "}", ",">>
LReasoning == <<QUOTE, "reasoning", QUOTE, ":", SP, "{", "}">>

LHeadEmpty == <<"{", QUOTE, "iteration", QUOTE, ":", SP, "2", ",", SP,
                QUOTE, "analysis", QUOTE, ":", SP, QUOTE, QUOTE, ",">>
LOneLine == LHead \o <<SP>> \o LTail

MarkerLines == {LUsaSaid, LChinaSaid, LUsaLower, LRussia, LEuSaid}

WellFormedBlocks ==
  { <<LHead, LTail>>,
    <<LOpen, LIteration, LAnalysis, LNormUpdates, LReasoning, LClose>> }

MalformedBlocks == { <<LOpen, LText, LClose>>, <<LHead, LClose>> }

\* an Update whose analysis is the empty string
EmptyAnalysisOutputs ==
  {pre \o <<LHeadEmpty, LTail>> \o post :
     pre \in {<<>>, <<LUsaSaid>>}, post \in {<<>>, <<LChinaSaid>>}}

\* an Update written on one line
OneLineOutputs ==
  {<<LOneLine>>}
  \cup {<<LOneLine, a>> : a \in MarkerLines \cup {LText, LOneLine}}
  \cup {<<a, LOneLine, b>> : a \in MarkerLines, b \in MarkerLines}

\* an utterance, then a block whose opening line quotes a country marker
QuotedOpenerOutputs == { <<a, LOpenQuoted, LClose>> : a \in MarkerLines }

\* an Update whose iteration is null or a string, then an utterance
LHeadNull == <<"{", QUOTE, "iteration", QUOTE, ":", SP, "null", ",", SP,
               QUOTE, "analysis", QUOTE, ":", SP, QUOTE, "ok", QUOTE, ",">>
LHeadString == <<"{", QUOTE, "iteration", QUOTE, ":", SP, QUOTE, "2", QUOTE, ",", SP,
                 QUOTE, "analysis", QUOTE, ":", SP, QUOTE, "ok", QUOTE, ",">>
OddIterationOutputs == { <<head, LTail, LUsaSaid>> : head \in {LHeadNull, LHeadString} }

\* two rounds: the four countries speak, then the analyst's Update of the round
WellFormedRun ==
  <<LUsaSaid, LChinaSaid, LRussia, LEuSaid,
    LOpen, LIteration, LAnalysis, LNormUpdates, LReasoning, LClose,
    LUsaSaid, LChinaSaid, LRussia, LEuSaid,
    LHead, LTail>>

GcpOutputs ==
  {<<a, b>> \o blk : a \in MarkerLines, b \in MarkerLines, blk \in WellFormedBlocks}
  \cup {<<a, LText, b>> : a \in MarkerLines, b \in MarkerLines}
  \cup {pre \o bad \o post :
          pre \in {<<>>} \cup {<<a>> : a \in MarkerLines},
          bad \in MalformedBlocks,
          post \in {<<b>> : b \in MarkerLines} \cup WellFormedBlocks}
  \cup {<<LBlank>>, <<LOpen, LClose>>}
  \cup {b1 \o b2 : b1 \in WellFormedBlocks, b2 \in WellFormedBlocks}
  \cup EmptyAnalysisOutputs
  \cup OneLineOutputs
  \cup QuotedOpenerOutputs
  \cup OddIterationOutputs
  \cup {WellFormedRun}

\* lines.join('\n'), the inverse of split('\n')
RECURSIVE JoinLines(_)
JoinLines(lines) ==
  IF lines = <<>> THEN <<>>
  ELSE IF Len(lines) = 1 THEN lines[1]
  ELSE lines[1] \o <<NL>> \o JoinLines(Tail(lines))

\* 'key' in parsed
HasKey(parsed, key) ==
  IF parsed.kind = "country" THEN key \in {"country", "message", "iteration", "timestamp"}
  ELSE \E i \in 1..Len(parsed.value.m) : parsed.value.m[i].key = <<key>>

\* the two pushes of the loop body
pushParsed(lists, parsed) ==
  IF parsed = Null THEN lists
  ELSE IF HasKey(parsed, "country")
  THEN [lists EXCEPT !.countryResponses = Append(@, parsed)]
  ELSE IF HasKey(parsed, "iteration") /\ HasKey(parsed, "norm_updates")
  THEN [lists EXCEPT !.analystResponses = Append(@, parsed)]
  ELSE lists

\* ...value: the elements of an array, the pieces of a string; anything else throws
Spread(v) ==
  IF v.k = "arr" THEN [ok |-> TRUE, items |-> [i \in 1..Len(v.m) |-> [kind |-> "json", value |-> v.m[i].val]]]
  ELSE IF v.k = "str" THEN [ok |-> TRUE, items |-> [i \in 1..Len(v.s) |-> [kind |-> "json", value |-> JsStr(<<v.s[i]>>)]]]
  ELSE [ok |-> FALSE, items |-> <<>>]

\* if nothing was parsed from the lines: JSON.parse(output) inside try/catch
structuredFallback(lists, text) ==
  IF lists.countryResponses # <<>> \/ lists.analystResponses # <<>> THEN lists
  ELSE LET jsonOutput == JSONparse(text)
           cr == GetProp(jsonOutput.val, <<"country_responses">>)
           ar == GetProp(jsonOutput.val, <<"analyst_responses">>)
           lists1 == IF Truthy(cr) /\ Spread(cr).ok
                     THEN [lists EXCEPT !.countryResponses = @ \o Spread(cr).items]
                     ELSE lists
       IN IF ~jsonOutput.ok \/ jsonOutput.val.k = "null" THEN lists
          ELSE IF Truthy(cr) /\ ~Spread(cr).ok THEN lists
          ELSE IF Truthy(ar) /\ Spread(ar).ok
          THEN [lists1 EXCEPT !.analystResponses = @ \o Spread(ar).items]
          ELSE lists1

Lists == [countryResponses |-> countryResponses, analystResponses |-> analystResponses]

InitGcp ==
  /\ jsonBuffer = NewOutputParser.jsonBuffer
  /\ inJsonBlock = NewOutputParser.inJsonBlock
  /\ currentResponse = NewOutputParser.currentResponse
  /\ currentIteration = NewOutputParser.currentIteration
  /\ ret = Null
  /\ op = NoOp
  /\ prev = NewOutputParser
  /\ calls = 0
  /\ output \in GcpOutputs
  /\ feed = output
  /\ pc = "loop"
  /\ countryResponses = <<>>
  /\ analystResponses = <<>>
  /\ records = <<>>
  /\ NewAdkManager
  /\ NewGcpReasoningEngine
  /\ NewServer

\* one iteration of: for (let i = 0; i < lines.length; i++)
GcpLine ==
  /\ pc = "loop"
  /\ feed # <<>>
  /\ feed' = Tail(feed)
  /\ LET line == Head(feed)
     IN IF Trim(line) = <<>>
        THEN UNCHANGED <<parserVars, ret, op, prev, calls,
                         countryResponses, analystResponses, records>>
        ELSE LET r == parseLine(Self, line)
                 caught == r.ret.kind = "throw"   \* catch (error) { console.warn(...) }
                 lists == IF caught THEN Lists ELSE pushParsed(Lists, r.ret)
             IN /\ Becomes(r.st)
                /\ ret' = r.ret
                /\ op' = Call("parseLine", line)
                /\ prev' = Self
                /\ calls' = calls + 1
                /\ countryResponses' = lists.countryResponses
                /\ analystResponses' = lists.analystResponses
                /\ records' = IF r.ret = Null \/ caught THEN records
                              ELSE Append(records, r.ret)
  /\ UNCHANGED <<output, pc, adkVars, tokenVars, queryVars, apiVars>>

\* after the loop: finalize, the fallback, return
GcpFinish ==
  /\ pc = "loop"
  /\ feed = <<>>
  /\ LET r == finalize(Self)
         lists == IF r.ret = Null THEN Lists
                  ELSE [Lists EXCEPT !.countryResponses = Append(@, r.ret)]
         final == structuredFallback(lists, JoinLines(output))
     IN /\ Becomes(r.st)
        /\ ret' = r.ret
        /\ countryResponses' = final.countryResponses
        /\ analystResponses' = final.analystResponses
        /\ records' = IF r.ret = Null THEN records ELSE Append(records, r.ret)
  /\ op' = Call("finalize", <<>>)
  /\ prev' = Self
  /\ calls' = calls + 1
  /\ pc' = "done"
  /\ UNCHANGED <<output, feed, adkVars, tokenVars, queryVars, apiVars>>

NextGcp == GcpLine \/ GcpFinish

SpecGcp == InitGcp /\ [][NextGcp]_vars

(***************************************************************************)
(* AdkManager (server/adkManager.ts): startSimulation for one caller at a  *)
(* time, the stdout 'data' handler and the 'close' handler of the child.   *)
(* The child's stdout is the text `output`, written in chunks that end at  *)
(* line boundaries.  The same text goes through parseGcpOutput with the    *)
(* parser of its own, so that the two ways of feeding can be compared.     *)
(***************************************************************************)
MaxRuns == 1

\* text.split('\n')
SplitLines(s) ==
  LET breaks == {i \in 1..Len(s) : s[i] = NL}
      n == Cardinality(breaks)
  IN [k \in 1..(n + 1) |->
        SubSeq(s, IF k = 1 THEN 1 ELSE NthOf(breaks, k - 1) + 1,
                  IF k = n + 1 THEN Len(s) ELSE NthOf(breaks, k) - 1)]

\* the chunks of a text whose lines are cut after the lines numbered in cuts
RECURSIVE Chunked(_, _, _, _)
Chunked(lines, cuts, i, cur) ==
  IF i >= Len(lines) THEN <<cur \o lines[i]>>
  ELSE IF i \in cuts THEN <<cur \o lines[i] \o <<NL>>>> \o Chunked(lines, cuts, i + 1, <<>>)
  ELSE Chunked(lines, cuts, i + 1, cur \o lines[i] \o <<NL>>)

Chunkings(lines) == {Chunked(lines, cuts, 1, <<>>) : cuts \in SUBSET (1..(Len(lines) - 1))}

AdkLines == {LUsaSaid, LChinaSaid, LText, LHead, LTail, LClose, LBlank, LNoise}

AdkTexts ==
  {<<a, b>> : a \in AdkLines, b \in AdkLines}
  \cup {<<a, b, c>> : a \in AdkLines, b \in AdkLines, c \in AdkLines}

\* variant: the last piece of every chunk is taken for an unfinished line and dropped
chunkLines_dropsLast(data) ==
  SubSeq(SplitLines(data), 1, Len(SplitLines(data)) - 1)

\* const lines = data.toString().split('\n')
chunkLines(data) == SplitLines(data)

\* const parsed = this.parser.parseLine(line);
\* if (parsed && this.outputCallback) this.outputCallback(parsed)
\* (an exception of parseLine would leave the handler)
deliverParsed(h, r) ==
  IF r.ret.kind = "throw" THEN [st |-> r.st, out |-> h.out, live |-> FALSE]
  ELSE [st |-> r.st, out |-> IF r.ret # Null THEN Append(h.out, r.ret) ELSE h.out, live |-> TRUE]

\* the body of the loop: if (line.trim()) { ... }
handleLine(h, line) ==
  IF ~h.live \/ Trim(line) = <<>> THEN h ELSE deliverParsed(h, parseLine(h.st, line))

\* for (const line of lines) { ... }
RECURSIVE handleLines(_, _)
handleLines(h, lines) ==
  IF lines = <<>> THEN h ELSE handleLines(handleLine(h, Head(lines)), Tail(lines))

\* the calls of the outputCallback of the run in progress
CurrentLog == delivered[Len(delivered)]

InitAdk ==
  /\ jsonBuffer = NewOutputParser.jsonBuffer
  /\ inJsonBlock = NewOutputParser.inJsonBlock
  /\ currentResponse = NewOutputParser.currentResponse
  /\ currentIteration = NewOutputParser.currentIteration
  /\ ret = Null
  /\ op = NoOp
  /\ prev = NewOutputParser
  /\ calls = 0
  /\ output \in AdkTexts
  /\ feed = SplitLines(JoinLines(output))
  /\ pc = "loop"
  /\ countryResponses = <<>>
  /\ analystResponses = <<>>
  /\ records = <<>>
  /\ NewAdkManager
  /\ NewGcpReasoningEngine
  /\ NewServer

\* this.process = spawn('adk', ...); this.isRunning = true; the handlers are
\* registered and the 5-minute timer is armed
\* (the child is given the text it will write, cut into chunks)
SpawnedWith(chunkings) ==
  /\ process' = [kind |-> "child", id |-> Len(stdout) + 1]
  /\ isRunning' = TRUE
  /\ \E chunks \in chunkings : stdout' = Append(stdout, chunks)
  /\ alive' = alive \cup {Len(stdout) + 1}
  /\ timers' = timers \cup {Len(stdout) + 1}
  /\ UNCHANGED killed

\* the child writes whole lines at a time
Spawned == SpawnedWith(Chunkings(output))

\* startSimulation called when no other call is under way, the agent file
\* exists: guard, callbacks, parser.reset(), and after the await the spawn
AdkStart ==
  /\ ~isRunning
  /\ awaiting = 0
  /\ Len(stdout) < MaxRuns
  /\ adkParser' = reset(adkParser)
  /\ delivered' = Append(delivered, <<>>)
  /\ Spawned
  /\ UNCHANGED <<parserVars, ret, op, prev, calls, runVars, tokenVars, queryVars, apiVars, completed, awaiting>>

\* startSimulation, the agent file is missing: spawnAdkProcess rejects
AdkStartFails ==
  /\ ~isRunning
  /\ awaiting = 0
  /\ adkParser' = reset(adkParser)
  /\ isRunning' = FALSE
  /\ UNCHANGED <<parserVars, ret, op, prev, calls, runVars, tokenVars, queryVars, apiVars,
                 process, stdout, delivered, completed, alive, awaiting, timers, killed>>

\* child.stdout.on('data', ...) of the child c
AdkData(c) ==
  /\ c \in alive
  /\ stdout[c] # <<>>
  /\ LET r == handleLines([st |-> adkParser, out |-> CurrentLog, live |-> TRUE],
                          chunkLines(Head(stdout[c])))
     IN /\ adkParser' = r.st
        /\ delivered' = [delivered EXCEPT ![Len(delivered)] = r.out]
  /\ stdout' = [stdout EXCEPT ![c] = Tail(@)]
  /\ UNCHANGED <<parserVars, ret, op, prev, calls, runVars, tokenVars, queryVars, apiVars,
                 isRunning, process, completed, alive, awaiting, timers, killed>>

\* child.on('close', ...) of the child c, once its stdout has ended
AdkClose(c) ==
  /\ c \in alive
  /\ stdout[c] = <<>>
  /\ LET r == finalize(adkParser)
     IN /\ adkParser' = r.st
        /\ delivered' = IF r.ret # Null
                        THEN [delivered EXCEPT ![Len(delivered)] = Append(@, r.ret)]
                        ELSE delivered
  /\ isRunning' = FALSE
  /\ process' = Null
  /\ completed' = completed + 1
  /\ alive' = alive \ {c}
  /\ UNCHANGED <<parserVars, ret, op, prev, calls, runVars, tokenVars, queryVars, apiVars, stdout, awaiting,
                 timers, killed>>

NextAdk ==
  \/ AdkStart
  \/ AdkStartFails
  \/ \E c \in alive : AdkData(c)
  \/ \E c \in alive : AdkClose(c)
  \/ GcpLine
  \/ GcpFinish

SpecAdk == InitAdk /\ [][NextAdk]_vars

(***************************************************************************)
(* AdkManager under callers that do not wait for one another: a call of    *)
(* startSimulation runs to its first await, and its continuation (the      *)
(* spawn) runs later, after whatever else was called in between.           *)
(***************************************************************************)
MaxStarts == 2

RaceTexts == { <<LUsaSaid, LChinaSaid>>, <<LUsaSaid, LText>> }

InitAdkRace ==
  /\ jsonBuffer = NewOutputParser.jsonBuffer
  /\ inJsonBlock = NewOutputParser.inJsonBlock
  /\ currentResponse = NewOutputParser.currentResponse
  /\ currentIteration = NewOutputParser.currentIteration
  /\ ret = Null
  /\ op = NoOp
  /\ prev = NewOutputParser
  /\ calls = 0
  /\ output \in RaceTexts
  /\ feed = <<>>
  /\ pc = "idle"
  /\ countryResponses = <<>>
  /\ analystResponses = <<>>
  /\ records = <<>>
  /\ NewAdkManager
  /\ NewGcpReasoningEngine
  /\ NewServer

\* startSimulation up to `await this.writeInputFile(...)`: the guard, the
\* callbacks, parser.reset()
AdkEnter ==
  /\ ~isRunning
  /\ Len(delivered) < MaxStarts
  /\ adkParser' = reset(adkParser)
  /\ delivered' = Append(delivered, <<>>)
  /\ awaiting' = awaiting + 1
  /\ UNCHANGED <<parserVars, ret, op, prev, calls, runVars, tokenVars, queryVars, apiVars,
                 isRunning, process, stdout, completed, alive, timers, killed>>

\* the continuation of a call after its awaits: spawnAdkProcess, agent file found
AdkSpawn ==
  /\ awaiting > 0
  /\ awaiting' = awaiting - 1
  /\ Spawned
  /\ UNCHANGED <<parserVars, ret, op, prev, calls, runVars, tokenVars, queryVars, apiVars,
                 adkParser, delivered, completed>>

\* the continuation of a call after its awaits: spawnAdkProcess rejects, the
\* catch of startSimulation sets isRunning = false
AdkSpawnFails ==
  /\ awaiting > 0
  /\ awaiting' = awaiting - 1
  /\ isRunning' = FALSE
  /\ UNCHANGED <<parserVars, ret, op, prev, calls, runVars, tokenVars, queryVars, apiVars,
                 adkParser, process, stdout, delivered, completed, alive, timers, killed>>

NextAdkRace ==
  \/ AdkEnter
  \/ AdkSpawn
  \/ AdkSpawnFails
  \/ \E c \in alive : AdkData(c)
  \/ \E c \in alive : AdkClose(c)

SpecAdkRace == InitAdkRace /\ [][NextAdkRace]_vars

(***************************************************************************)
(* AdkManager over several simulations: stopSimulation, the 5-minute timer *)
(* of every spawn, close events that arrive late, and a child whose stdout *)
(* reaches the data handler cut at any place.                              *)
(***************************************************************************)
MaxLives == 2
MaxCut == 1

\* the data chunks of a text cut at most once, at any of its first places
CutOnce(s) ==
  {<<s>>} \cup {<<SubSeq(s, 1, i), SubSeq(s, i + 1, Len(s))>> :
                  i \in {j \in 1..MaxCut : j < Len(s)}}

\* startSimulation called when no other call is under way, the agent file exists
AdkStartAnyChunks ==
  /\ ~isRunning
  /\ awaiting = 0
  /\ Len(stdout) < MaxLives
  /\ adkParser' = reset(adkParser)
  /\ delivered' = Append(delivered, <<>>)
  /\ SpawnedWith(CutOnce(JoinLines(output)))
  /\ UNCHANGED <<parserVars, ret, op, prev, calls, runVars, tokenVars, queryVars, apiVars, completed, awaiting>>

\* stopSimulation(), called by the timer armed for the child `timer` or
\* (timer = 0) from outside: this.process is sent SIGTERM and writes no more
\* than what it had written already
stopSimulation(by, timer) ==
  IF process # Null
  THEN /\ killed' = killed \cup {[child |-> process.id, by |-> by, timer |-> timer,
                                   late |-> by = "timer" /\ timer \notin alive]}
       /\ \E n \in 0..Len(stdout[process.id]) :
            stdout' = [stdout EXCEPT ![process.id] = SubSeq(@, 1, n)]
       /\ process' = Null
       /\ isRunning' = FALSE
  ELSE UNCHANGED <<killed, stdout, process, isRunning>>

AdkStop ==
  /\ process # Null
  /\ stopSimulation("stop", 0)
  /\ UNCHANGED <<parserVars, ret, op, prev, calls, runVars, tokenVars, queryVars, apiVars,
                 adkParser, delivered, completed, alive, awaiting, timers>>

\* the callback of setTimeout(..., 5 * 60 * 1000) armed when the child c was
\* spawned; timers fire in the order they were armed
AdkTimeout(c) ==
  /\ c \in timers
  /\ \A d \in timers : c <= d
  /\ timers' = timers \ {c}
  /\ IF isRunning THEN stopSimulation("timer", c)
     ELSE UNCHANGED <<killed, stdout, process, isRunning>>
  /\ UNCHANGED <<parserVars, ret, op, prev, calls, runVars, tokenVars, queryVars, apiVars,
                 adkParser, delivered, completed, alive, awaiting>>

NextAdkLife ==
  \/ AdkStartAnyChunks
  \/ AdkStop
  \/ \E c \in timers : AdkTimeout(c)
  \/ \E c \in alive : AdkData(c)
  \/ \E c \in alive : AdkClose(c)

SpecAdkLife == InitAdkRace /\ [][NextAdkLife]_vars

(***************************************************************************)
(* GcpReasoningEngine (server/gcpService.ts): the token cache and query.   *)
(* Time is counted in minutes and advances in steps of ClockStep.          *)
(***************************************************************************)
TokenLifetime == 58
ClockStep == 29
MaxTime == 58
MaxAttempts == 3

Engine == [cachedToken |-> cachedToken, tokenExpiry |-> tokenExpiry]

\* what execSync('gcloud auth print-access-token') does on its n-th run:
\* it throws, or it returns what gcloud printed
ExecOutcomes(n) ==
  { Throw("Command failed"),
    [kind |-> "stdout", text |-> <<"token", ToString(n), NL>>],
    [kind |-> "stdout", text |-> <<NL>>] }

\* variant: a cached token is used whatever the time
getToken_ignoresExpiry(g, t, exec) ==
  IF Truthy(g.cachedToken)
  THEN [st |-> g, ok |-> TRUE, token |-> g.cachedToken, fetched |-> FALSE]
  ELSE IF exec.kind = "throw"
  THEN [st |-> g, ok |-> FALSE, token |-> JsNull, fetched |-> TRUE]
  ELSE [st |-> [cachedToken |-> JsStr(Trim(exec.text)), tokenExpiry |-> JsNum(t + TokenLifetime)],
        ok |-> TRUE, token |-> JsStr(Trim(exec.text)), fetched |-> TRUE]

\* getToken at time t; exec is what execSync does if it is run.
\* ok = FALSE: throws 'Failed to get gcloud token. Run: gcloud auth login'
getToken(g, t, exec) ==
  IF Truthy(g.cachedToken) /\ Truthy(g.tokenExpiry) /\ t < g.tokenExpiry.n
  THEN [st |-> g, ok |-> TRUE, token |-> g.cachedToken, fetched |-> FALSE]
  ELSE IF exec.kind = "throw"
  THEN [st |-> g, ok |-> FALSE, token |-> JsNull, fetched |-> TRUE]
  ELSE [st |-> [cachedToken |-> JsStr(Trim(exec.text)), tokenExpiry |-> JsNum(t + TokenLifetime)],
        ok |-> TRUE, token |-> JsStr(Trim(exec.text)), fetched |-> TRUE]

\* response.status === 401
isTokenExpired(status) == status = "401"

\* query(input) from its call to its first suspension, as the n-th call
\* made for the request, with the engine's cache being g:
\* await this.getToken(), then createSession is sent
QueryEnter(g, n) ==
  \E exec \in ExecOutcomes(fetches + 1) :
    LET r == getToken(g, now, exec)
    IN /\ cachedToken' = r.st.cachedToken
       /\ tokenExpiry' = r.st.tokenExpiry
       /\ fetches' = IF r.fetched THEN fetches + 1 ELSE fetches
       /\ cacheHits' = IF r.fetched THEN cacheHits ELSE cacheHits + 1
       /\ attempts' = n
       /\ token' = r.token
       /\ sessionId' = JsNull
       /\ queryPc' = IF r.ok THEN "createSession" ELSE "settled"
       /\ settled' = IF r.ok THEN Null ELSE Throw("Failed to get gcloud token")
       /\ UNCHANGED now

\* what response.json() of the stream query yields
TextOf(lines) == JsStr(JoinLines(lines))

Results ==
  { TextOf(<<LUsaSaid, LChinaSaid>>),
    JsObj(<<[key |-> <<"output">>, val |-> TextOf(<<LUsaSaid, LHead, LTail>>)]>>),
    JsObj(<<[key |-> <<"response">>, val |-> TextOf(<<LChinaSaid>>)]>>),
    JsObj(<<[key |-> <<"output">>, val |-> JsObj(<<>>)]>>),
    JsObj(<<>>),
    JsNull }

\* the answer to createSession arrives
CreateSessionAnswers ==
  /\ queryPc = "createSession"
  /\ \E answer \in {"ok", "notOk", "networkError"} :
       IF answer = "ok"
       THEN /\ sessionId' = JsStr(<<"session", ToString(Cardinality(created) + 1)>>)
            /\ created' = created \cup {sessionId'}
            /\ queryPc' = "stream"
            /\ UNCHANGED settled
       ELSE \* thrown into the catch of query: sessionId is null, the error is thrown on
            /\ settled' = Throw(IF answer = "notOk" THEN "Failed to create session"
                                ELSE "fetch failed")
            /\ queryPc' = "settled"
            /\ UNCHANGED <<sessionId, created>>
  /\ UNCHANGED <<parserVars, ret, op, prev, calls, runVars, adkVars, tokenVars,
                 attempts, token, deleted, apiVars>>

\* the answer to the stream query arrives
StreamAnswers ==
  /\ queryPc = "stream"
  /\ \E status \in {"200", "401", "403", "404", "500", "AbortError", "ENOTFOUND"} :
       IF status = "200"
       THEN \* response.json(), then deleteSession is sent
            /\ \E result \in Results : settled' = [kind |-> "result", value |-> result]
            /\ deleted' = deleted \cup {sessionId}
            /\ queryPc' = "cleanup"
            /\ UNCHANGED <<tokenVars, attempts, token, sessionId, created>>
       ELSE IF isTokenExpired(status)
       THEN \* the cache is cleared and query is called again
            /\ attempts < MaxAttempts
            /\ QueryEnter([cachedToken |-> JsNull, tokenExpiry |-> JsNull], attempts + 1)
            /\ UNCHANGED <<created, deleted>>
       ELSE \* thrown into the catch of query: deleteSession is sent, then the error is thrown
            /\ settled' = Throw(CASE status = "403" -> "Permission denied"
                                  [] status = "404" -> "Reasoning Engine not found"
                                  [] status = "AbortError" -> "Request timeout after 5 minutes"
                                  [] status = "ENOTFOUND" -> "No internet connection"
                                  [] OTHER -> "GCP API error")
            /\ deleted' = deleted \cup {sessionId}
            /\ queryPc' = "cleanup"
            /\ UNCHANGED <<tokenVars, attempts, token, sessionId, created>>
  /\ UNCHANGED <<parserVars, ret, op, prev, calls, runVars, adkVars, apiVars>>

\* deleteSession returns, whatever the server answered: query settles
DeleteAnswers ==
  /\ queryPc = "cleanup"
  /\ queryPc' = "settled"
  /\ UNCHANGED <<parserVars, ret, op, prev, calls, runVars, adkVars, tokenVars,
                 attempts, token, sessionId, created, deleted, settled, apiVars>>

\* time passes, while the server is idle or waits for an answer
Tick ==
  /\ pc # "loop"
  /\ now + ClockStep <= MaxTime
  /\ now' = now + ClockStep
  /\ UNCHANGED <<parserVars, ret, op, prev, calls, runVars, adkVars,
                 cachedToken, tokenExpiry, fetches, cacheHits, queryVars, apiVars>>

(***************************************************************************)
(* POST /api/simulate (server/index.ts): one request at a time.            *)
(***************************************************************************)
MaxRequests == 2

\* req.body.event: absent, null, not a string, the empty string, a string
Events ==
  { JsUndefined, JsNull, JsNum(0), JsNum(3), JsObj(<<>>), JsStr(<<>>),
    JsStr(<<"crisis">>), JsStr(<<SP>>) }

\* the characters of a string inside a JSON string literal
EscapeString(s) ==
  [i \in 1..Len(s) |-> IF s[i] = NL THEN "\\n" ELSE IF s[i] = QUOTE THEN "\\\"" ELSE s[i]]

\* JSON.stringify(v) for a value JSON.parse can produce
RECURSIVE JSONstringify(_)
RECURSIVE StringifyItems(_, _, _)
JSONstringify(v) ==
  CASE v.k = "num" -> <<ToString(v.n)>>
    [] v.k = "str" -> <<QUOTE>> \o EscapeString(v.s) \o <<QUOTE>>
    [] v.k = "obj" -> <<"{">> \o StringifyItems(v.m, 1, TRUE) \o <<"}">>
    [] v.k = "arr" -> <<"[">> \o StringifyItems(v.m, 1, FALSE) \o <<"]">>
    [] OTHER -> <<"null">>

StringifyItems(m, i, keyed) ==
  IF i > Len(m) THEN <<>>
  ELSE (IF i > 1 THEN <<",">> ELSE <<>>)
         \o (IF keyed THEN <<QUOTE>> \o EscapeString(m[i].key) \o <<QUOTE, ":">> ELSE <<>>)
         \o JSONstringify(m[i].val)
         \o StringifyItems(m, i + 1, keyed)

\* typeof x === 'string' ? x : JSON.stringify(x)
asText(x) == IF x.k = "str" THEN x.s ELSE JSONstringify(x)

\* parseGcpOutput, the extraction of output from result; ok = FALSE where
\* reading a property of null throws TypeError
extractOutput(result) ==
  IF result.k = "str" THEN [ok |-> TRUE, output |-> result.s]
  ELSE IF result.k \in {"null", "undefined"} THEN [ok |-> FALSE, output |-> <<>>]
  ELSE IF Truthy(GetProp(result, <<"output">>))
  THEN [ok |-> TRUE, output |-> asText(GetProp(result, <<"output">>))]
  ELSE IF Truthy(GetProp(result, <<"response">>))
  THEN [ok |-> TRUE, output |-> asText(GetProp(result, <<"response">>))]
  ELSE [ok |-> TRUE, output |-> JSONstringify(result)]

\* variant: the type of event is not tested
isValidEvent_anyType(value) == Truthy(value)

\* !(!event || typeof event !== 'string')
isValidEvent(value) == Truthy(value) /\ value.k = "str"

\* res.status(s).json(body) for the request at hand
Respond(status, body) ==
  responses' = Append(responses, [status |-> status, body |-> body])

\* variant: one parser object is kept by the module and used by every call
parser_shared(st) == st

\* const parser = new OutputParser(), whatever parser st an earlier call left behind
parser(st) == NewOutputParser

InitApi ==
  /\ jsonBuffer = NewOutputParser.jsonBuffer
  /\ inJsonBlock = NewOutputParser.inJsonBlock
  /\ currentResponse = NewOutputParser.currentResponse
  /\ currentIteration = NewOutputParser.currentIteration
  /\ ret = Null
  /\ op = NoOp
  /\ prev = NewOutputParser
  /\ calls = 0
  /\ output = <<>>
  /\ feed = <<>>
  /\ pc = "idle"
  /\ countryResponses = <<>>
  /\ analystResponses = <<>>
  /\ records = <<>>
  /\ NewAdkManager
  /\ NewGcpReasoningEngine
  /\ NewServer

\* a request arrives (the locals of the request before it are gone): the
\* validation, and for a valid event the call of gcpService.query(event)
\* up to its first suspension
ApiReceive ==
  /\ apiPc \in {"idle", "responded"}
  /\ requests < MaxRequests
  /\ requests' = requests + 1
  /\ event' \in Events
  /\ IF ~isValidEvent(event')
     THEN /\ responses' = <<[status |-> 400,
                             body |-> [success |-> FALSE,
                                       error |-> "Event is required and must be a string"]]>>
          /\ apiPc' = "responded"
          /\ attempts' = 0
          /\ queryPc' = "idle"
          /\ token' = JsNull
          /\ sessionId' = JsNull
          /\ settled' = Null
          /\ UNCHANGED tokenVars
     ELSE /\ responses' = <<>>
          /\ apiPc' = "query"
          /\ QueryEnter(Engine, 1)
  /\ created' = {}
  /\ deleted' = {}
  /\ UNCHANGED parserVars
  /\ ret' = Null
  /\ op' = NoOp
  /\ prev' = NewOutputParser
  /\ calls' = 0
  /\ output' = <<>>
  /\ feed' = <<>>
  /\ pc' = "idle"
  /\ countryResponses' = <<>>
  /\ analystResponses' = <<>>
  /\ records' = <<>>
  /\ UNCHANGED adkVars

\* await gcpService.query(event) rejects, or parseGcpOutput throws: the catch
ApiFails ==
  /\ apiPc = "query"
  /\ queryPc = "settled"
  /\ IF settled.kind = "throw" THEN TRUE ELSE ~extractOutput(settled.value).ok
  /\ Respond(500, [success |-> FALSE,
                   error |-> IF settled.kind = "throw" THEN settled.error
                             ELSE "Cannot read properties of null"])
  /\ apiPc' = "responded"
  /\ UNCHANGED <<parserVars, ret, op, prev, calls, runVars, adkVars, tokenVars,
                 queryVars, event, requests>>

\* await gcpService.query(event) returns: parseGcpOutput(result) up to its loop
ApiParse ==
  /\ apiPc = "query"
  /\ queryPc = "settled"
  /\ settled.kind = "result"
  /\ extractOutput(settled.value).ok
  /\ Becomes(parser(Self))
  /\ countryResponses' = <<>>
  /\ analystResponses' = <<>>
  /\ output' = SplitLines(extractOutput(settled.value).output)
  /\ feed' = output'
  /\ pc' = "loop"
  /\ apiPc' = "parse"
  /\ UNCHANGED <<ret, op, prev, records, calls, adkVars, tokenVars, queryVars, event, requests, responses>>

\* parseGcpOutput has returned: res.json({ success: true, responses: parsed })
ApiRespond ==
  /\ apiPc = "parse"
  /\ pc = "done"
  /\ Respond(200, [success |-> TRUE, responses |-> Lists])
  /\ apiPc' = "responded"
  /\ UNCHANGED <<parserVars, ret, op, prev, calls, runVars, adkVars, tokenVars,
                 queryVars, event, requests>>

NextApi ==
  \/ ApiReceive
  \/ CreateSessionAnswers
  \/ StreamAnswers
  \/ DeleteAnswers
  \/ ApiFails
  \/ ApiParse
  \/ GcpLine
  \/ GcpFinish
  \/ ApiRespond
  \/ Tick

SpecApi == InitApi /\ [][NextApi]_vars

(***************************************************************************)
(* Properties                                                              *)
(***************************************************************************)

\* C1 (as claimed): for <marker A>, <marker B>, <well-formed analyst block>
\* the loop's parseLine calls return Utterance(A), Utterance(B), Update in
\* that order, Utterance(B) before the Update and not left to finalize().
C1_UtteranceClosedByJsonStart ==
  ( /\ pc = "loop" /\ feed = <<>>
    /\ Len(output) >= 3
    /\ output[1] \in MarkerLines /\ output[2] \in MarkerLines
    /\ SubSeq(output, 3, Len(output)) \in WellFormedBlocks )
  => /\ Len(records) = 3
     /\ records[1].kind = "country" /\ records[1].country = normalizeCountryName(output[1][2])
     /\ records[2].kind = "country" /\ records[2].country = normalizeCountryName(output[2][2])
     /\ records[3].kind = "analyst"

\* C2 (as claimed): a line fed while inJsonBlock is true that contains a
\* country marker emits no country utterance and opens no pending utterance.
C2_MarkerInsideJsonIgnored ==
  ( /\ op.name = "parseLine"
    /\ prev.inJsonBlock
    /\ COUNTRY_PATTERN(op.line).found )
  => /\ ret.kind # "country"
     /\ currentResponse = prev.currentResponse

\* C3 (as claimed): a line that starts with a bracketed alias of a country,
\* in any letter case, with or without "said:", opens a turn for the
\* canonical country; "[US] said: hi" opens (USA, "hi").
C3_AliasOpensCanonicalTurn ==
  ( /\ op.name = "parseLine"
    /\ ~prev.inJsonBlock
    /\ Len(op.line) >= 3
    /\ op.line[1] = "[" /\ op.line[3] = "]"
    /\ ToLowerCase(op.line[2]) \in
         {"usa", "us", "united states", "china", "prc", "russia",
          "russian federation", "eu", "european union"} )
  => /\ currentResponse.kind = "country"
     /\ currentResponse.country = normalizeCountryName(op.line[2])
     /\ (op.line = LUsAlias =>
           currentResponse.country = "USA" /\ currentResponse.message = <<"hi">>)

\* C4 (as claimed): when the buffered block reaches brace balance, parses as
\* JSON but lacks a required field, the call returns nothing and leaves
\* jsonBuffer empty and inJsonBlock false.
C4_MissingFieldClosesBlock ==
  ( /\ op.name = "parseLine"
    /\ Trim(op.line) # <<>>
    /\ prev.inJsonBlock
    /\ LET buffer == prev.jsonBuffer \o <<NL>> \o Trim(op.line)
       IN /\ CountOf(buffer, "{") = CountOf(buffer, "}")
          /\ JSONparse(buffer).ok
          /\ \E key \in {"iteration", "analysis", "norm_updates", "reasoning"} :
                GetProp(JSONparse(buffer).val, <<key>>) = JsUndefined )
  => /\ ret = Null
     /\ jsonBuffer = <<>>
     /\ inJsonBlock = FALSE

\* the last call was a parseLine whose line brought the buffered block to
\* brace balance, and the block is not JSON
ParseFailed ==
  /\ op.name = "parseLine"
  /\ Trim(op.line) # <<>>
  /\ prev.inJsonBlock
  /\ LET buffer == prev.jsonBuffer \o <<NL>> \o Trim(op.line)
     IN /\ CountOf(buffer, "{") = CountOf(buffer, "}")
        /\ ~JSONparse(buffer).ok

C6_BraceBalanceGating ==
  (op.name = "parseLine" /\ Trim(op.line) # <<>>) =>
    LET t == Trim(op.line)
        buffered == IF prev.inJsonBlock THEN prev.jsonBuffer \o <<NL>> \o t
                    ELSE IF t[1] = "{" THEN t ELSE <<>>
        opened == CountOf(buffered, "{")
        closed == CountOf(buffered, "}")
    IN /\ ret.kind = "analyst" => (opened >= 1 /\ opened = closed)
       /\ (buffered # <<>> /\ opened # closed) =>
             /\ ret.kind # "analyst"
             /\ inJsonBlock
             /\ jsonBuffer = buffered

C6_Witness ==
  /\ op.name = "parseLine"
  /\ ret.kind = "analyst"
  /\ CountOf(prev.jsonBuffer, "{") > CountOf(prev.jsonBuffer, "}")

\* C7: at most one utterance is pending; a parseLine call that opens a turn
\* while one is pending returns the pending one unchanged and makes the new
\* one pending; no call makes a pending utterance disappear unreturned.
C7_PreviousUtteranceEmitted ==
  /\ currentResponse.kind \in {"null", "country"}
  /\ ( /\ op.name = "parseLine"
       /\ prev.currentResponse # Null
       /\ Trim(op.line) # <<>>
       /\ COUNTRY_PATTERN(op.line).found
       /\ ret.kind # "analyst" )
     => /\ ret = prev.currentResponse
        /\ currentResponse.kind = "country"
        /\ currentResponse.country = normalizeCountryName(COUNTRY_PATTERN(op.line).group1)
  /\ (op.name \in {"parseLine", "finalize"} /\ prev.currentResponse # Null)
     => \/ ret = prev.currentResponse
        \/ /\ currentResponse.kind = "country"
           /\ currentResponse.country = prev.currentResponse.country
           /\ currentResponse.iteration = prev.currentResponse.iteration
           /\ StartsWith(currentResponse.message, prev.currentResponse.message)

C7_Witness ==
  /\ op.name = "parseLine"
  /\ prev.currentResponse # Null
  /\ ret = prev.currentResponse
  /\ currentResponse.kind = "country"
  /\ currentResponse.country # ret.country

\* C8: finalize() returns the pending utterance if there is one, else
\* nothing, and clears it; a finalize() that directly follows a finalize()
\* returns nothing and changes nothing.
C8_FinalizeIdempotent ==
  /\ op.name = "finalize" => (ret = prev.currentResponse /\ currentResponse = Null)
  /\ (op.name = "finalize" /\ op.after = "finalize") => (ret = Null /\ Self = prev)

C8_Witness ==
  /\ op.name = "finalize"
  /\ op.after = "finalize"
  /\ ret = Null
  /\ calls >= 3

\* the last call was a parseLine of a non-blank line without a country
\* marker and without a noise prefix, made while an utterance was pending
\* and no JSON block was open
PlainLineWhilePending ==
  /\ op.name = "parseLine"
  /\ prev.currentResponse # Null
  /\ ~prev.inJsonBlock
  /\ Trim(op.line) # <<>>
  /\ ~COUNTRY_PATTERN(op.line).found
  /\ ~isSystemMessage(Trim(op.line))

C10_NoiseLeavesPendingUnchanged ==
  ( /\ op.name = "parseLine"
    /\ prev.currentResponse # Null
    /\ isSystemMessage(op.line) )
  => /\ currentResponse = prev.currentResponse
     /\ ret = Null

\* C11: a turn opened by a parseLine call carries the value currentIteration
\* had when that call started; while the utterance is pending its iteration
\* does not change, also not on a call that returns an Update; a returned
\* utterance is the pending one, iteration included.
C11_IterationFixedAtOpening ==
  /\ ( /\ op.name = "parseLine"
       /\ Trim(op.line) # <<>>
       /\ COUNTRY_PATTERN(op.line).found
       /\ ret.kind # "analyst" )
     => (currentResponse.kind = "country" /\ currentResponse.iteration = prev.currentIteration)
  /\ ( /\ op.name = "parseLine"
       /\ ret.kind = "analyst" )
     => currentResponse = prev.currentResponse
  /\ ( /\ op.name = "parseLine"
       /\ prev.currentResponse # Null
       /\ ~COUNTRY_PATTERN(op.line).found )
     => (currentResponse.kind = "country"
         /\ currentResponse.iteration = prev.currentResponse.iteration)
  /\ ret.kind = "country"
     => (prev.currentResponse # Null /\ ret.iteration = prev.currentResponse.iteration)

C11_Witness ==
  /\ op.name = "parseLine"
  /\ ret.kind = "country"
  /\ ret.iteration = JsNum(1)
  /\ prev.currentIteration = JsNum(2)
  /\ currentResponse.iteration = JsNum(2)

\* C12: currentIteration is 1 until an Update has been returned and from
\* then on the iteration field of the Update returned last, also when that
\* is smaller than the one before; finalize and a parseLine that returns no
\* Update leave it as it was.
C12_IterationFollowsLastUpdate ==
  /\ LET updates == {i \in 1..Len(records) : records[i].kind = "analyst"}
         last == CHOOSE i \in updates : \A j \in updates : j <= i
     IN currentIteration = IF updates = {} THEN JsNum(1)
                           ELSE GetProp(records[last].value, <<"iteration">>)
  /\ (op.name = "finalize" \/ (op.name = "parseLine" /\ ret.kind # "analyst"))
     => currentIteration = prev.currentIteration

C12_Witness ==
  /\ Len(records) = 2
  /\ records[1].kind = "analyst"
  /\ records[2].kind = "analyst"
  /\ GetProp(records[1].value, <<"iteration">>) = JsNum(2)
  /\ GetProp(records[2].value, <<"iteration">>) = JsNum(1)
  /\ currentIteration = JsNum(1)
  /\ op.name = "finalize"

\* C13: a text fed to a fresh parser as one string split on newline, and
\* the same text fed to another parser in chunks cut at line boundaries,
\* each chunk split on newline and blank pieces skipped, give the same
\* sequence of records, the result of finalize() included.
C13_ChunkInvariance ==
  pc = "done" => \A k \in 1..completed : delivered[k] = records

\* a run cut into several chunks: one chunk is still to come, the chunks
\* before it have delivered the first record of the whole text
C13_Witness ==
  /\ pc = "done"
  /\ isRunning
  /\ Len(stdout[process.id]) = 1
  /\ Len(records) >= 2
  /\ CurrentLog = <<records[1]>>

\* C14: no call of parseLine or finalize ends in an exception: whatever
\* the state and the line, the call returns a record or nothing; the
\* SyntaxError of JSON.parse on a malformed block is caught inside.
C14_NoExceptionEscapes ==
  op.name \in {"parseLine", "finalize"} =>
    /\ ret.kind \in {"null", "country", "analyst"}
    /\ ParseFailed => ret.kind \in {"null", "country"}

C14_Witness ==
  /\ ParseFailed
  /\ prev.currentResponse = Null
  /\ ret = Null
  /\ ~inJsonBlock

\* C15: a marker-shaped line whose label is no known alias, fed while no
\* JSON block is open, opens a turn whose country is the raw label; the
\* line is neither dropped nor appended to the pending utterance.
C15_UnknownLabelPassedRaw ==
  (op.name = "parseLine" /\ op.line = LMars /\ ~prev.inJsonBlock) =>
    /\ currentResponse = CountryResponse("Mars", <<"hi">>, prev.currentIteration)
    /\ ret = prev.currentResponse

\* C16: finalize() called while a JSON block is open returns the pending
\* utterance if there is one and nothing otherwise; it never returns an
\* Update, so the unfinished block gives no record.
C16_OpenBlockLostAtEnd ==
  (op.name = "finalize" /\ prev.inJsonBlock) =>
    /\ ret = prev.currentResponse
    /\ ret.kind \in {"null", "country"}
    /\ currentResponse = Null

C16_Witness ==
  /\ op.name = "finalize"
  /\ prev.inJsonBlock
  /\ prev.jsonBuffer = LHead
  /\ ret.kind = "country"

\* C17: after finalize() returns, jsonBuffer is empty and inJsonBlock is
\* false, whatever block was open before the call.
C17_FinalizeDiscardsJsonBlock ==
  op.name = "finalize" => (jsonBuffer = <<>> /\ inJsonBlock = FALSE)

\* C18: a brace-balanced buffered block is returned as an Update exactly
\* when it is valid JSON with the keys iteration, analysis, norm_updates
\* and reasoning present, whatever their values.
C18_AcceptedByKeyPresence ==
  (op.name = "parseLine" /\ prev.inJsonBlock /\ Trim(op.line) # <<>>) =>
    LET buffer == prev.jsonBuffer \o <<NL>> \o Trim(op.line)
        parsed == JSONparse(buffer)
        present(key) == \E i \in 1..Len(parsed.val.m) : parsed.val.m[i].key = <<key>>
    IN bracesMatch(buffer) =>
         (ret.kind = "analyst"
            <=> (parsed.ok /\ present("iteration") /\ present("analysis")
                   /\ present("norm_updates") /\ present("reasoning")))

\* C19: a valid Update written on one line gives exactly one Analyst
\* Response, whatever line follows it.
C19_OneLineUpdateEmitted ==
  (pc = "done" /\ output \in OneLineOutputs /\ Len(output) <= 3
     /\ \A k \in 2..Len(output) : output[k] # LOneLine) =>
    Len(analystResponses) = 1

\* C20: in a well-formed run every utterance spoken in round k is emitted
\* with iteration = k.
C20_UtteranceCarriesItsRound ==
  (pc = "done" /\ output = WellFormedRun) =>
    /\ Len(countryResponses) = 8
    /\ \A i \in 1..Len(countryResponses) :
         countryResponses[i].iteration = JsNum(IF i <= 4 THEN 1 ELSE 2)

\* the turn a parseLine call opens, if it opens one: the marker is found
\* and the line did not complete an Update
openedBy(st, line) ==
  IF /\ Trim(line) # <<>>
     /\ tryParseAnalystJson(st, Trim(line)).ret = Null
     /\ COUNTRY_PATTERN(line).found
  THEN <<[country |-> normalizeCountryName(COUNTRY_PATTERN(line).group1),
          iteration |-> st.currentIteration,
          message |-> markerMessage(line)]>>
  ELSE <<>>

\* the Update a parseLine call completes, if it completes one
completedBy(st, line) ==
  IF Trim(line) # <<>> /\ tryParseAnalystJson(st, Trim(line)).ret.kind = "analyst"
  THEN <<tryParseAnalystJson(st, Trim(line)).ret>>
  ELSE <<>>

historyStep(h, line) ==
  [st |-> parseLine(h.st, line).st,
   opened |-> h.opened \o openedBy(h.st, line),
   completed |-> h.completed \o completedBy(h.st, line)]

\* the turns opened and the Updates completed by the calls parseLine(lines[1]), ...
RECURSIVE History(_, _)
History(h, lines) ==
  IF lines = <<>> THEN h
  ELSE CHOOSE last \in {History(next, Tail(lines)) : next \in {historyStep(h, Head(lines))}} : TRUE

OutputHistory == History([st |-> NewOutputParser, opened |-> <<>>, completed |-> <<>>], output)

OfKind(seq, kind) == SelectSeq(seq, LAMBDA x : x.kind = kind)

\* C21: the records of the parseLine calls followed by one finalize() hold
\* every opened utterance exactly once, in the order of opening, and every
\* completed Update exactly once.
C21_EveryRecordExactlyOnce ==
  pc = "done" =>
    \E h \in {OutputHistory} : \E utterances \in {OfKind(records, "country")} :
       /\ Len(utterances) = Len(h.opened)
       /\ \A i \in 1..Len(h.opened) :
            /\ utterances[i].country = h.opened[i].country
            /\ utterances[i].iteration = h.opened[i].iteration
            /\ StartsWith(utterances[i].message, h.opened[i].message)
       /\ OfKind(records, "analyst") = h.completed
       /\ currentResponse = Null

C21_Witness ==
  /\ pc = "done"
  /\ output = WellFormedRun
  /\ Len(OfKind(records, "country")) = 8
  /\ Len(OfKind(records, "analyst")) = 2
  /\ records[Len(records)].kind = "country"

\* C22: a request whose event is missing, empty or not a string is answered
\* 400 with success = false, and neither query nor the parser is called for
\* it; a request with a valid event is answered success = true with the
\* parsed responses, or 500 with success = false; every request gets one
\* response and no more.
C22_OneResponsePerRequest ==
  /\ apiPc \in {"idle", "query", "parse"} => responses = <<>>
  /\ apiPc = "responded" =>
       /\ Len(responses) = 1
       /\ \E sent \in {responses[1]} :
            IF event.k # "str" \/ event.s = <<>>
            THEN /\ sent.status = 400
                 /\ sent.body.success = FALSE
                 /\ attempts = 0
                 /\ calls = 0
            ELSE \/ /\ sent.status = 200
                    /\ sent.body.success = TRUE
                    /\ sent.body.responses = Lists
                    /\ settled.kind = "result"
                    /\ pc = "done"
                 \/ /\ sent.status = 500
                    /\ sent.body.success = FALSE

C22_Witness ==
  /\ apiPc = "responded"
  /\ requests = 2
  /\ responses[1].status = 200
  /\ Len(countryResponses) = 2
  /\ attempts = 2

\* C23: a 401 makes query clear the cached token and call itself once more,
\* and only once: whatever the server answers, query is entered at most
\* twice for one request.
C23_RetriesOnce ==
  attempts <= 2

\* C24: at most one ADK process is alive at any time, however the calls of
\* startSimulation interleave.
C24_OneProcessAtATime ==
  Cardinality(alive) <= 1

\* the cache holds a token and its expiry time has not come
TokenValid ==
  Truthy(cachedToken) /\ Truthy(tokenExpiry) /\ now < tokenExpiry.n

\* the step is the 401 branch of query: the cache is cleared, query is called again
ClearedBy401 ==
  queryPc = "stream" /\ attempts' = attempts + 1

\* C25: getToken does not run gcloud while a cached token exists and the
\* time is before its expiry; it runs gcloud when the expiry has passed or a
\* 401 has cleared the cache; a fetched token expires TokenLifetime minutes
\* after the fetch; a failed fetch leaves no token that counts as valid.
C25_TokenCache ==
  [][ /\ fetches' # fetches => ClearedBy401 \/ ~TokenValid
      /\ cacheHits' # cacheHits => TokenValid /\ ~ClearedBy401 /\ token' = cachedToken
      /\ fetches' # fetches /\ queryPc' = "createSession" =>
           /\ tokenExpiry' = JsNum(now + TokenLifetime)
           /\ cachedToken' = token'
      /\ fetches' # fetches /\ queryPc' = "settled" => ~TokenValid' ]_vars

\* a second request was answered from the cache, half way through the
\* token's lifetime
C25_Witness ==
  /\ cacheHits = 1
  /\ fetches = 1
  /\ requests = 2
  /\ queryPc = "createSession"
  /\ token = cachedToken
  /\ now = ClockStep
  /\ tokenExpiry = JsNum(TokenLifetime)

\* C26 (as claimed): a parseLine call whose trimmed line starts with '{',
\* made while inJsonBlock is false, returns nothing, sets inJsonBlock and
\* leaves that line, and nothing else, in jsonBuffer, whatever the rest of
\* the line holds.
C26_OpeningLineOnlyOpensBlock ==
  ( /\ op.name = "parseLine"
    /\ ~prev.inJsonBlock
    /\ StartsWith(Trim(op.line), <<"{">>) )
  => /\ ret = Null
     /\ inJsonBlock
     /\ jsonBuffer = Trim(op.line)

\* C27 (as claimed): a parseLine call that starts with inJsonBlock = true
\* and an utterance pending leaves that utterance's message as it was, also
\* when the line brings the braces into balance and the block is not JSON.
\* Stated for lines without a country marker.
C27_PendingUntouchedInsideJson ==
  ( /\ op.name = "parseLine"
    /\ prev.inJsonBlock
    /\ prev.currentResponse # Null
    /\ ~COUNTRY_PATTERN(op.line).found )
  => IF currentResponse = Null THEN FALSE
     ELSE currentResponse.message = prev.currentResponse.message

\* the last call was a parseLine of a line without a country marker whose
\* trimmed text does not start with '{', made while no utterance was pending
\* and no JSON block was open
StrayLine ==
  /\ op.name = "parseLine"
  /\ ~prev.inJsonBlock
  /\ prev.currentResponse = Null
  /\ ~COUNTRY_PATTERN(op.line).found
  /\ ~StartsWith(Trim(op.line), <<"{">>)

C29_MarkerOnlyAtLineStart ==
  ( /\ op.name = "parseLine"
    /\ ~prev.inJsonBlock
    /\ prev.currentResponse # Null
    /\ COUNTRY_PATTERN(op.line).found
    /\ ~MarkerAt(Trim(op.line), 1)
    /\ ~StartsWith(Trim(op.line), <<"{">>)
    /\ ~isSystemMessage(Trim(op.line)) )
  => /\ ret = Null
     /\ currentResponse = appendLine(prev.currentResponse, op.line)

\* C30 (as claimed): outside a JSON block, a parseLine call whose line
\* starts with a system-noise pattern returns nothing and leaves the pending
\* utterance (or its absence) as it was, whatever follows the pattern.
C30_NoiseNeverOpensOrCloses ==
  ( /\ op.name = "parseLine"
    /\ ~prev.inJsonBlock
    /\ isSystemMessage(op.line) )
  => /\ ret = Null
     /\ (currentResponse = Null) = (prev.currentResponse = Null)
     /\ currentResponse = prev.currentResponse

\* C31 (as claimed): a line with leading whitespace whose trimmed text starts
\* with a system-noise pattern, fed while an utterance is pending and no JSON
\* block is open, is dropped: the pending utterance is left as it was and
\* nothing is returned. Stated for lines without a country marker.
C31_NoiseTestedOnTrimmedText ==
  ( /\ op.name = "parseLine"
    /\ ~prev.inJsonBlock
    /\ prev.currentResponse # Null
    /\ ~COUNTRY_PATTERN(op.line).found
    /\ op.line # TrimLeft(op.line)
    /\ isSystemMessage(Trim(op.line)) )
  => /\ currentResponse = prev.currentResponse
     /\ ret = Null

\* C32 (as claimed): currentIteration is always an integer, and so is the
\* iteration of every country utterance emitted.
C32_IterationIsInteger ==
  /\ currentIteration.k = "num"
  /\ \A i \in 1..Len(records) :
       records[i].kind = "country" => records[i].iteration.k = "num"

\* the records a parser in state h.st adds to h.records when fed one line by
\* the loop of parseGcpOutput
recordsStep(h, line) ==
  IF Trim(line) = <<>> THEN h
  ELSE [st |-> parseLine(h.st, line).st,
        records |-> IF parseLine(h.st, line).ret.kind \in {"country", "analyst"}
                    THEN Append(h.records, parseLine(h.st, line).ret)
                    ELSE h.records]

RECURSIVE RecordsFrom(_, _)
RecordsFrom(h, lines) ==
  IF lines = <<>>
  THEN IF finalize(h.st).ret = Null THEN h.records
       ELSE Append(h.records, finalize(h.st).ret)
  ELSE CHOOSE last \in {RecordsFrom(next, Tail(lines)) : next \in {recordsStep(h, Head(lines))}} : TRUE

\* the records of a text, as a function of the text alone
RecordsOfText(lines) == RecordsFrom([st |-> NewOutputParser, records |-> <<>>], lines)

C34_MidLineCutSameRecords ==
  (Len(stdout) = 1 /\ killed = {} /\ completed = 1) =>
    \E expected \in {RecordsOfText(output)} : delivered[1] = expected

\* C35 (as claimed): a child killed by a timer that fired after the child
\* it was armed for had closed is that child itself, which cannot be: such
\* a timer kills nothing.
C35_TimerStopsOnlyItsOwnRun ==
  \A k \in killed : (k.by = "timer" /\ k.late) => k.timer = k.child

\* the children stopSimulation() was called on from outside
Stopped == {k.child : k \in {x \in killed : x.by = "stop"}}

\* C36 (as claimed): the close event of a child stopped by stopSimulation(),
\* arriving while the child of a later startSimulation() is alive, leaves
\* the parser, isRunning, process, the new run's output log and the count
\* of completion callbacks as they were.
C36_LateCloseLeavesNewRunAlone ==
  [][ ( /\ process # Null
        /\ process.id \in alive
        /\ \E c \in Stopped \cap alive : c # process.id /\ alive' = alive \ {c} )
      => /\ adkParser' = adkParser
         /\ isRunning' = isRunning
         /\ process' = process
         /\ delivered' = delivered
         /\ completed' = completed ]_vars

\* C37 (as claimed): when the promise of query settles, every session
\* created for the request has been passed to deleteSession.
C37_EverySessionDeleted ==
  queryPc = "settled" => created \subseteq deleted

\* C38 (as claimed): in a well-formed run of several rounds no two country
\* utterances emitted share the pair (country, iteration).
C38_UniqueCountryIteration ==
  (pc = "done" /\ output = WellFormedRun) =>
    \A i, j \in 1..Len(countryResponses) :
      ( /\ countryResponses[i].country = countryResponses[j].country
        /\ countryResponses[i].iteration = countryResponses[j].iteration ) => i = j

====
